---- MODULE Spec2Model ----
(***************************************************************************)
(* Model of flock_ml/analysis/experimentation.py: the two sample-size      *)
(* calculators get_t_test_group_size_with_pairwise_correction and          *)
(* get_proportion_test_group_size_with_pairwise_correction.                *)
(*                                                                         *)
(* Numbers.  Probabilities (alpha, power) are integers in units of         *)
(* 1/PScale; proportions (p1, p2) are integers in units of 1/PropScale;    *)
(* normal quantiles and square roots are integers in units of 1/ZScale.    *)
(* A float is a record [cls, num, den]: cls "fin" stands for the rational  *)
(* num/den, and "pinf", "ninf", "nan" for the IEEE-754 specials that the   *)
(* numpy arithmetic of the source produces (x/0, ppf(1), ppf(p > 1)).      *)
(***************************************************************************)
EXTENDS Integers, FiniteSets, Sequences, TLC

VARIABLES fn, args, pc, adjusted_alpha, group_size, result

vars == <<fn, args, pc, adjusted_alpha, group_size, result>>

---------------------------------------------------------------------------
(* Resolutions of the fixed-point representation. *)
PScale == 1000000
PropScale == 100
ZScale == 1000

(* Bounds of the input space. *)
MaxGroups == 4
MaxVariance == 4
MaxDelta == 3

(* Default arguments of both functions. *)
DefaultAlpha == 50000
DefaultPower == 800000
DefaultGroups == 2

---------------------------------------------------------------------------
(* Floats *)
Fin(n, d) == [cls |-> "fin", num |-> n, den |-> d]
PosInf == [cls |-> "pinf", num |-> 0, den |-> 1]
NegInf == [cls |-> "ninf", num |-> 0, den |-> 1]
NaN == [cls |-> "nan", num |-> 0, den |-> 1]
None == [cls |-> "none", num |-> 0, den |-> 1]

RECURSIVE GCD(_, _)
GCD(a, b) == IF b = 0 THEN a ELSE GCD(b, a % b)

(* Nearest integer to n / d (d > 0), halves upwards. *)
RoundDiv(n, d) == (2 * n + d) \div (2 * d)

(* x + y *)
FAdd(x, y) ==
  IF x.cls = "nan" \/ y.cls = "nan" THEN NaN
  ELSE IF x.cls = "pinf" THEN (IF y.cls = "ninf" THEN NaN ELSE PosInf)
  ELSE IF x.cls = "ninf" THEN (IF y.cls = "pinf" THEN NaN ELSE NegInf)
  ELSE IF y.cls \in {"pinf", "ninf"} THEN y
  ELSE IF x.den = y.den THEN Fin(x.num + y.num, x.den)
  ELSE Fin(x.num * y.den + y.num * x.den, x.den * y.den)

(* -x *)
FNeg(x) ==
  IF x.cls = "fin" THEN Fin(-x.num, x.den)
  ELSE IF x.cls = "pinf" THEN NegInf
  ELSE IF x.cls = "ninf" THEN PosInf
  ELSE NaN

(* x - y *)
FSub(x, y) == FAdd(x, FNeg(y))

(* The sign of a float that is not nan: -1, 0 or 1. *)
FSign(x) ==
  IF x.cls = "pinf" THEN 1
  ELSE IF x.cls = "ninf" THEN -1
  ELSE IF x.num > 0 THEN 1
  ELSE IF x.num < 0 THEN -1 ELSE 0

(* x * y: inf * 0 is nan. *)
FMul(x, y) ==
  IF x.cls = "nan" \/ y.cls = "nan" THEN NaN
  ELSE IF x.cls = "fin" /\ y.cls = "fin" THEN Fin(x.num * y.num, x.den * y.den)
  ELSE IF FSign(x) * FSign(y) = 0 THEN NaN
  ELSE IF FSign(x) * FSign(y) > 0 THEN PosInf ELSE NegInf

(* x ** 2 *)
FSquare(x) == FMul(x, x)

(* x / y for a finite y >= 0: numpy float64 division, where a zero       *)
(* divisor gives inf or nan (with a warning), not an exception.          *)
FDiv(x, y) ==
  IF x.cls = "nan" THEN NaN
  ELSE IF x.cls \in {"pinf", "ninf"} THEN x
  ELSE IF y.num = 0 THEN (IF x.num > 0 THEN PosInf
                          ELSE IF x.num < 0 THEN NegInf ELSE NaN)
  ELSE LET g == GCD(x.den, y.den)
       IN  Fin(x.num * (y.den \div g), (x.den \div g) * y.num)

(* np.abs *)
FAbs(x) ==
  IF x.cls = "fin" THEN Fin(IF x.num < 0 THEN -x.num ELSE x.num, x.den)
  ELSE IF x.cls = "nan" THEN NaN ELSE PosInf

(* The rounding of a float64 result, at the resolution 1/d of the model   *)
(* (d divides x.den).                                                      *)
FRound(x, d) ==
  IF x.cls = "fin" THEN Fin(RoundDiv(x.num, x.den \div d), d) ELSE x

---------------------------------------------------------------------------
(* Integer square root by bisection: the r in lo..hi with r^2 <= n < (r+1)^2. *)
RECURSIVE ISqrt(_, _, _)
ISqrt(n, lo, hi) ==
  IF lo >= hi THEN lo
  ELSE LET mid == (lo + hi + 1) \div 2
       IN  IF mid * mid <= n THEN ISqrt(n, mid, hi) ELSE ISqrt(n, lo, mid - 1)

(* np.sqrt, at resolution 1/ZScale (x.den divides ZScale^2). *)
sqrt(x) ==
  IF x.cls = "nan" \/ x.cls = "ninf" THEN NaN
  ELSE IF x.cls = "pinf" THEN PosInf
  ELSE IF x.num < 0 THEN NaN
  ELSE Fin(ISqrt(x.num * ((ZScale * ZScale) \div x.den), 0, 2 * ZScale), ZScale)

(* The standard normal distribution function at z = 0.00, 0.05, ..., 4.00, *)
(* in units of 1/PScale.                                                   *)
NormCdfTable ==
  << 500000, 519939, 539828, 559618, 579260, 598706, 617911, 636831,
     655422, 673645, 691462, 708840, 725747, 742154, 758036, 773373,
     788145, 802337, 815940, 828944, 841345, 853141, 864334, 874928,
     884930, 894350, 903200, 911492, 919243, 926471, 933193, 939429,
     945201, 950529, 955435, 959941, 964070, 967843, 971283, 974412,
     977250, 979818, 982136, 984222, 986097, 987776, 989276, 990613,
     991802, 992857, 993790, 994614, 995339, 995975, 996533, 997020,
     997445, 997814, 998134, 998411, 998650, 998856, 999032, 999184,
     999313, 999423, 999517, 999596, 999663, 999720, 999767, 999807,
     999841, 999869, 999892, 999912, 999928, 999941, 999952, 999961,
     999968 >>

(* Spacing of the table's z values, in units of 1/ZScale. *)
TableStep == 50

(* The largest index i in lo..hi with NormCdfTable[i] <= p. *)
RECURSIVE Locate(_, _, _)
Locate(p, lo, hi) ==
  IF lo >= hi THEN lo
  ELSE LET mid == (lo + hi + 1) \div 2
       IN  IF NormCdfTable[mid] <= p THEN Locate(p, mid, hi)
           ELSE Locate(p, lo, mid - 1)

(* The quantile, in units of 1/ZScale, of a probability p in PScale/2 ..  *)
(* PScale - 1 (units of 1/PScale): the table inverted, with linear        *)
(* interpolation between its entries; probabilities beyond the table's    *)
(* last entry get its last z.                                             *)
Quantile(p) ==
  LET i == Locate(p, 1, Len(NormCdfTable))
  IN  IF i = Len(NormCdfTable) THEN TableStep * (i - 1)
      ELSE TableStep * (i - 1)
           + (TableStep * (p - NormCdfTable[i]))
               \div (NormCdfTable[i + 1] - NormCdfTable[i])

(* A finite probability on the grid of 1/PScale. *)
ToGrid(x) ==
  IF x.den % PScale = 0 THEN RoundDiv(x.num, x.den \div PScale)
  ELSE x.num * (PScale \div x.den)

(* scipy.stats.norm.ppf: nan outside [0, 1], -inf at 0, inf at 1. *)
ppf(x) ==
  IF x.cls # "fin" THEN NaN
  ELSE LET p == ToGrid(x)
       IN  IF p < 0 \/ p > PScale THEN NaN
           ELSE IF p = 0 THEN NegInf
           ELSE IF p = PScale THEN PosInf
           ELSE IF 2 * p >= PScale THEN Fin(Quantile(p), ZScale)
           ELSE Fin(-Quantile(PScale - p), ZScale)

(* scipy.special.comb(n_groups, 2) *)
comb(n) == IF n < 2 THEN 0 ELSE (n * (n - 1)) \div 2

(* Mutant: the truncation of int() without np.ceil. *)
ceilTruncated(x) == x.num \div x.den

(* np.ceil of a finite float *)
ceil(x) == -((-x.num) \div x.den)

(* int(np.ceil(group_size)): int() raises OverflowError on an infinity and *)
(* ValueError on a nan.                                                    *)
IntCeil(x) ==
  IF x.cls = "fin" THEN [kind |-> "return", value |-> ceil(x)]
  ELSE IF x.cls = "nan" THEN [kind |-> "ValueError", value |-> 0]
  ELSE [kind |-> "OverflowError", value |-> 0]

---------------------------------------------------------------------------
(* Arguments as floats. *)
Whole(n) == Fin(n, 1)
Prob(a) == Fin(a, PScale)
Proportion(p) == Fin(p, PropScale)

(* Mutant: alpha multiplied by the number of pairs. *)
AdjustedAlphaTimes(alpha, n_groups) ==
  FMul(Prob(alpha), Whole(comb(n_groups)))

(* adjusted_alpha = alpha / comb(n_groups, 2) *)
AdjustedAlpha(alpha, n_groups) == FDiv(Prob(alpha), Whole(comb(n_groups)))

(* norm.ppf(1 - adjusted_alpha / 2) *)
CriticalValue(adj) == ppf(FSub(Whole(1), FDiv(adj, Whole(2))))

(* Mutant: the quantile at 1 - power. *)
PowerValueOfBeta(power) == ppf(Prob(PScale - power))

(* norm.ppf(power) *)
PowerValue(power) == ppf(Prob(power))

(* Mutant: the asserts without the bounds on alpha. *)
TTestAssertsNoAlphaBounds(variance, alpha, power, n_groups) ==
  /\ variance > 0
  /\ alpha < power /\ power < PScale
  /\ n_groups >= 2

(* The asserts of get_t_test_group_size_with_pairwise_correction. *)
TTestAsserts(variance, alpha, power, n_groups) ==
  /\ variance > 0
  /\ 0 < alpha /\ alpha < PScale
  /\ alpha < power /\ power < PScale
  /\ n_groups >= 2

(* Mutant: multiplied by delta ** 2. *)
TTestGroupSizeTimesDelta(variance, delta, adj, power) ==
  FMul(FMul(Whole(2 * variance),
            FSquare(FAdd(CriticalValue(adj), PowerValue(power)))),
       FSquare(Whole(delta)))

(* group_size of get_t_test_group_size_with_pairwise_correction. *)
TTestGroupSize(variance, delta, adj, power) ==
  FDiv(FMul(Whole(2 * variance),
            FSquare(FAdd(CriticalValue(adj), PowerValue(power)))),
       FSquare(Whole(delta)))

(* The call get_t_test_group_size_with_pairwise_correction(variance,      *)
(* delta, alpha, power, n_groups): its locals and how it ends.            *)
TTest(variance, delta, alpha, power, n_groups) ==
  IF ~TTestAsserts(variance, alpha, power, n_groups)
  THEN [adjusted_alpha |-> None, group_size |-> None,
        result |-> [kind |-> "AssertionError", value |-> 0]]
  ELSE LET adj == AdjustedAlpha(alpha, n_groups)
           size == TTestGroupSize(variance, delta, adj, power)
       IN  [adjusted_alpha |-> adj, group_size |-> size,
            result |-> IntCeil(size)]

(* Mutant: p1 = 1 accepted. *)
ProportionAssertsP1Closed(p1, p2, alpha, power, n_groups) ==
  /\ 0 < p1 /\ p1 <= PropScale
  /\ 0 < p2 /\ p2 < PropScale
  /\ alpha < power /\ power < PScale
  /\ n_groups >= 2

(* Mutant: the asserts with the t-test's bounds on alpha. *)
ProportionAssertsAlphaBounds(p1, p2, alpha, power, n_groups) ==
  /\ 0 < p1 /\ p1 < PropScale
  /\ 0 < p2 /\ p2 < PropScale
  /\ 0 < alpha /\ alpha < PScale
  /\ alpha < power /\ power < PScale
  /\ n_groups >= 2

(* The asserts of get_proportion_test_group_size_with_pairwise_correction. *)
ProportionAsserts(p1, p2, alpha, power, n_groups) ==
  /\ 0 < p1 /\ p1 < PropScale
  /\ 0 < p2 /\ p2 < PropScale
  /\ alpha < power /\ power < PScale
  /\ n_groups >= 2

(* pbar = (p1 + p2) / 2 *)
Pbar(p1, p2) == FDiv(FAdd(Proportion(p1), Proportion(p2)), Whole(2))

(* qbar = 1 - pbar *)
Qbar(p1, p2) == FSub(Whole(1), Pbar(p1, p2))

(* Mutant: p2 + p1 for p2 - p1. *)
AbsDeltaSum(p1, p2) == FAbs(FAdd(Proportion(p2), Proportion(p1)))

(* delta = np.abs(p2 - p1) *)
AbsDelta(p1, p2) == FAbs(FSub(Proportion(p2), Proportion(p1)))

(* np.sqrt(2 * pbar * qbar) *)
PooledDeviation(p1, p2) ==
  sqrt(FMul(FMul(Whole(2), Pbar(p1, p2)), Qbar(p1, p2)))

(* Mutant: p2 * (1 - p1) for p2 * (1 - p2). *)
UnpooledDeviationP1Twice(p1, p2) ==
  sqrt(FAdd(FMul(Proportion(p1), FSub(Whole(1), Proportion(p1))),
            FMul(Proportion(p2), FSub(Whole(1), Proportion(p1)))))

(* np.sqrt(p1 * (1 - p1) + p2 * (1 - p2)) *)
UnpooledDeviation(p1, p2) ==
  sqrt(FAdd(FMul(Proportion(p1), FSub(Whole(1), Proportion(p1))),
            FMul(Proportion(p2), FSub(Whole(1), Proportion(p2)))))

(* group_size of get_proportion_test_group_size_with_pairwise_correction. *)
ProportionGroupSize(p1, p2, adj, power) ==
  FSquare(FDiv(FRound(FAdd(FMul(CriticalValue(adj), PooledDeviation(p1, p2)),
                           FMul(PowerValue(power), UnpooledDeviation(p1, p2))),
                      ZScale),
               AbsDelta(p1, p2)))

(* The call get_proportion_test_group_size_with_pairwise_correction(p1,   *)
(* p2, alpha, power, n_groups): its locals and how it ends.               *)
ProportionTest(p1, p2, alpha, power, n_groups) ==
  IF ~ProportionAsserts(p1, p2, alpha, power, n_groups)
  THEN [adjusted_alpha |-> None, group_size |-> None,
        result |-> [kind |-> "AssertionError", value |-> 0]]
  ELSE LET adj == AdjustedAlpha(alpha, n_groups)
           size == ProportionGroupSize(p1, p2, adj, power)
       IN  [adjusted_alpha |-> adj, group_size |-> size,
            result |-> IntCeil(size)]

---------------------------------------------------------------------------
(* The inputs. *)
Alphas == {-50000, 0, 10000, 50000, 400000, 1000000}
Powers == {0, 20000, 50000, 60000, 300000, 500000, 800000, 990000, 1000000}
Proportions == {0, 5, 10, 20, 35, 50, 75, 95, 100, 110}
Groups == 1 .. MaxGroups
Variances == -1 .. MaxVariance
Deltas == -MaxDelta .. MaxDelta

TTestArgs ==
  [variance : Variances, delta : Deltas, alpha : Alphas, power : Powers,
   n_groups : Groups]

ProportionArgs ==
  [p1 : Proportions, p2 : Proportions, alpha : Alphas, power : Powers,
   n_groups : Groups]

Pending == [kind |-> "pending", value |-> 0]

Init ==
  /\ \/ fn = "t_test" /\ args \in TTestArgs
     \/ fn = "proportion_test" /\ args \in ProportionArgs
  /\ pc = "call"
  /\ adjusted_alpha = None
  /\ group_size = None
  /\ result = Pending

get_t_test_group_size_with_pairwise_correction ==
  /\ pc = "call"
  /\ fn = "t_test"
  /\ LET r == TTest(args.variance, args.delta, args.alpha, args.power,
                    args.n_groups)
     IN  /\ adjusted_alpha' = r.adjusted_alpha
         /\ group_size' = r.group_size
         /\ result' = r.result
  /\ pc' = "done"
  /\ UNCHANGED <<fn, args>>

get_proportion_test_group_size_with_pairwise_correction ==
  /\ pc = "call"
  /\ fn = "proportion_test"
  /\ LET r == ProportionTest(args.p1, args.p2, args.alpha, args.power,
                             args.n_groups)
     IN  /\ adjusted_alpha' = r.adjusted_alpha
         /\ group_size' = r.group_size
         /\ result' = r.result
  /\ pc' = "done"
  /\ UNCHANGED <<fn, args>>

Next ==
  \/ get_t_test_group_size_with_pairwise_correction
  \/ get_proportion_test_group_size_with_pairwise_correction

Spec == Init /\ [][Next]_vars


---------------------------------------------------------------------------
(* The finished call, and its arguments' validity as the claims state it. *)
Done == pc = "done"
TTestDone == Done /\ fn = "t_test"
ProportionDone == Done /\ fn = "proportion_test"
Returned == result.kind = "return"
Raised(kind) == result.kind = kind

InUnit(a, scale) == 0 < a /\ a < scale
PowerValid == args.alpha < args.power /\ args.power < PScale
ProportionsValid == InUnit(args.p1, PropScale) /\ InUnit(args.p2, PropScale)

(* The finished call made again with one argument changed. *)
TTestWith(a) == TTest(a.variance, a.delta, a.alpha, a.power, a.n_groups).result
ProportionWith(a) ==
  ProportionTest(a.p1, a.p2, a.alpha, a.power, a.n_groups).result

Abs(n) == IF n < 0 THEN -n ELSE n

---------------------------------------------------------------------------
(* C1: the t-test call ends in an AssertionError, with no adjusted_alpha   *)
(* and no group_size computed, exactly when variance <= 0, or alpha is not *)
(* strictly between 0 and 1, or power is not strictly between alpha and 1, *)
(* or n_groups < 2; any other input raises no AssertionError.              *)
C1_TTestPreconditions ==
  TTestDone =>
    /\ Raised("AssertionError") <=>
         \/ args.variance <= 0
         \/ ~InUnit(args.alpha, PScale)
         \/ ~PowerValid
         \/ args.n_groups < 2
    /\ Raised("AssertionError") =>
         adjusted_alpha = None /\ group_size = None
    /\ ~Raised("AssertionError") => group_size # None

(* C1 witness: a call whose only fault is variance = 0 was rejected. *)
C1_Witness ==
  /\ TTestDone
  /\ args.variance = 0
  /\ InUnit(args.alpha, PScale) /\ PowerValid /\ args.n_groups >= 2
  /\ Raised("AssertionError")
  /\ group_size = None

(* C2: the proportion call ends in an AssertionError, with no group_size   *)
(* computed, whenever p1 or p2 is not strictly inside (0, 1), or power is  *)
(* not strictly between alpha and 1, or n_groups < 2.                      *)
C2_ProportionPreconditions ==
  (/\ ProportionDone
   /\ \/ ~InUnit(args.p1, PropScale)
      \/ ~InUnit(args.p2, PropScale)
      \/ ~PowerValid
      \/ args.n_groups < 2)
  => /\ Raised("AssertionError")
     /\ adjusted_alpha = None
     /\ group_size = None

(* C2 witness: a call whose only fault is p1 = 1 was rejected. *)
C2_Witness ==
  /\ ProportionDone
  /\ args.p1 = PropScale
  /\ InUnit(args.p2, PropScale) /\ PowerValid /\ args.n_groups >= 2
  /\ Raised("AssertionError")

(* C10: the proportion call with alpha <= 0, alpha < power < 1, valid      *)
(* p1, p2 and n_groups >= 2 passes its asserts, while the t-test call      *)
(* rejects the same alpha, power and n_groups whatever its variance and    *)
(* delta; alpha >= 1 is rejected by both calls.                            *)
C10_AlphaAsymmetry ==
  /\ (/\ ProportionDone
      /\ args.alpha <= 0
      /\ PowerValid /\ ProportionsValid /\ args.n_groups >= 2)
     => /\ ~Raised("AssertionError")
        /\ group_size # None
        /\ \A v \in Variances, d \in Deltas :
             TTest(v, d, args.alpha, args.power, args.n_groups).result.kind
               = "AssertionError"
  /\ (Done /\ args.alpha >= PScale) => Raised("AssertionError")

(* C10 witness: a proportion call with alpha = 0 got past the asserts. *)
C10_Witness ==
  /\ ProportionDone
  /\ args.alpha = 0
  /\ PowerValid /\ ProportionsValid /\ args.n_groups >= 2
  /\ ~Raised("AssertionError")

---------------------------------------------------------------------------
(* C3 (as stated): every call that passes its asserts returns normally,   *)
(* and returns an integer >= 1.                                           *)
C3_AcceptedInputsReturnPositive ==
  (Done /\ ~Raised("AssertionError")) => (Returned /\ result.value >= 1)

(* C4: the proportion call with p1 and p2 exchanged ends the same way: the *)
(* same returned integer or the same exception.                            *)
C4_ProportionSymmetry ==
  ProportionDone =>
    result = ProportionWith([args EXCEPT !.p1 = args.p2, !.p2 = args.p1])

(* C4 witness: a call with p1 # p2 returned a group size. *)
C4_Witness ==
  /\ ProportionDone
  /\ args.p1 < args.p2
  /\ Returned
  /\ result.value > 1

(* C8: the integer r the t-test call returns is the ceiling of            *)
(* 2 * variance * (z_alpha + z_power)^2 / delta^2, with z_alpha the normal *)
(* quantile at 1 - (alpha / C(n_groups, 2)) / 2 and z_power the quantile   *)
(* at power: r >= that value > r - 1.  With n_groups = 2 adjusted_alpha is *)
(* alpha itself, and variance 4, delta 1, alpha 0.05, power 0.8,           *)
(* n_groups 2 gives 63.                                                    *)
C8_TTestCeiling ==
  /\ (TTestDone /\ Returned) =>
       LET pairs == (args.n_groups * (args.n_groups - 1)) \div 2
           z_alpha == ppf(Fin(2 * pairs * PScale - args.alpha,
                              2 * pairs * PScale))
           z_power == ppf(Fin(args.power, PScale))
           z == z_alpha.num + z_power.num
           value == Fin(2 * args.variance * z * z,
                        args.delta * args.delta * ZScale * ZScale)
           r == result.value
       IN  /\ z_alpha.cls = "fin" /\ z_power.cls = "fin"
           /\ r * value.den >= value.num
           /\ (r - 1) * value.den < value.num
           /\ args.n_groups = 2 => adjusted_alpha = Fin(args.alpha, PScale)
  /\ (/\ TTestDone
      /\ args = [variance |-> 4, delta |-> 1, alpha |-> DefaultAlpha,
                 power |-> DefaultPower, n_groups |-> DefaultGroups])
     => (Returned /\ result.value = 63)

(* C8 witness: a t-test call returned from a group_size that is not a     *)
(* whole number, so that the ceiling rounded it up.                       *)
C8_Witness ==
  /\ TTestDone
  /\ Returned
  /\ group_size.num % group_size.den # 0
  /\ args.n_groups > 2

(* C9: a proportion call with p1 = p2 strictly inside (0, 1) and valid     *)
(* alpha, power and n_groups passes the asserts, divides by delta = 0 and  *)
(* ends with neither a returned integer nor an AssertionError: group_size  *)
(* is not finite.                                                          *)
C9_EqualProportionsDegenerate ==
  (/\ ProportionDone
   /\ args.p1 = args.p2
   /\ ProportionsValid
   /\ InUnit(args.alpha, PScale) /\ PowerValid /\ args.n_groups >= 2)
  => /\ AbsDelta(args.p1, args.p2).num = 0
     /\ ~Returned
     /\ ~Raised("AssertionError")
     /\ group_size.cls \in {"pinf", "ninf", "nan"}

(* C9 witness: such a call ended in the OverflowError of int(inf). *)
C9_Witness ==
  /\ ProportionDone
  /\ args.p1 = args.p2
  /\ ProportionsValid
  /\ InUnit(args.alpha, PScale) /\ PowerValid /\ args.n_groups >= 2
  /\ Raised("OverflowError")
  /\ group_size = PosInf

---------------------------------------------------------------------------
(* The arguments of the finished call are valid: it passed its asserts    *)
(* and alpha is inside (0, 1).                                            *)
ValidCall == Done /\ ~Raised("AssertionError") /\ InUnit(args.alpha, PScale)

(* The finished call's function with the arguments a. *)
CallWith(a) == IF fn = "t_test" THEN TTestWith(a) ELSE ProportionWith(a)

(* C5: for either function and valid arguments, one more group never      *)
(* gives a smaller returned group size; and the t-test call with variance *)
(* 4, delta 1, alpha 0.05, power 0.8 returns strictly more for 4 groups   *)
(* (adjusted_alpha 0.05 / 6) than for 2.                                  *)
C5_MonotoneInGroups ==
  /\ (ValidCall /\ Returned) =>
       LET more == CallWith([args EXCEPT !.n_groups = args.n_groups + 1])
       IN  more.kind = "return" => more.value >= result.value
  /\ (/\ TTestDone
      /\ args = [variance |-> 4, delta |-> 1, alpha |-> DefaultAlpha,
                 power |-> DefaultPower, n_groups |-> 4])
     => /\ adjusted_alpha = Fin(DefaultAlpha, 6 * PScale)
        /\ Returned
        /\ result.value
             > TTestWith([args EXCEPT !.n_groups = DefaultGroups]).value

(* C5 witness: a returned call for which one more group returns strictly  *)
(* more.                                                                  *)
C5_Witness ==
  /\ ValidCall /\ Returned
  /\ fn = "proportion_test"
  /\ LET more == CallWith([args EXCEPT !.n_groups = args.n_groups + 1])
     IN  more.kind = "return" /\ more.value > result.value

(* C6: for either function and valid arguments, a larger valid power      *)
(* never gives a smaller returned group size, below power 0.5 included.   *)
C6_MonotoneInPower ==
  (ValidCall /\ Returned) =>
    \A power_b \in Powers :
      (args.power < power_b /\ power_b < PScale) =>
        LET more == CallWith([args EXCEPT !.power = power_b])
        IN  more.kind = "return" /\ more.value >= result.value

(* C6 witness: a returned call with power below 0.5 for which a larger    *)
(* power, still below 0.5, returns strictly more.                         *)
C6_Witness ==
  /\ ValidCall /\ Returned
  /\ \E power_b \in Powers :
       /\ args.power < power_b /\ 2 * power_b < PScale
       /\ CallWith([args EXCEPT !.power = power_b]).value > result.value

(* p2 taken further from p1, on the side of p1 where p2 is. *)
Further(q) ==
  /\ InUnit(q, PropScale)
  /\ \/ args.p1 < args.p2 /\ args.p2 < q
     \/ q < args.p2 /\ args.p2 < args.p1

(* C7 (as stated): a larger delta never increases the group size the      *)
(* t-test call returns, and p2 taken further from p1 never increases the  *)
(* group size the proportion call returns.                                *)
C7_MonotoneInEffectAsStated ==
  /\ (ValidCall /\ Returned /\ fn = "t_test") =>
       \A d \in Deltas :
         args.delta < d =>
           LET other == TTestWith([args EXCEPT !.delta = d])
           IN  other.kind = "return" => other.value <= result.value
  /\ (ValidCall /\ Returned /\ fn = "proportion_test") =>
       \A q \in Proportions :
         Further(q) =>
           LET other == ProportionWith([args EXCEPT !.p2 = q])
           IN  other.kind = "return" => other.value <= result.value

(* C7 (amended): a delta of larger absolute value never increases the     *)
(* group size the t-test call returns; and with power >= 0.5, p2 taken    *)
(* further from p1 on the same side never increases the group size the    *)
(* proportion call returns.                                               *)
C7_MonotoneInEffect ==
  /\ (ValidCall /\ Returned /\ fn = "t_test") =>
       \A d \in Deltas :
         Abs(args.delta) < Abs(d) =>
           LET other == TTestWith([args EXCEPT !.delta = d])
           IN  other.kind = "return" /\ other.value <= result.value
  /\ (ValidCall /\ Returned /\ fn = "proportion_test"
        /\ 2 * args.power >= PScale) =>
       \A q \in Proportions :
         Further(q) =>
           LET other == ProportionWith([args EXCEPT !.p2 = q])
           IN  other.kind = "return" /\ other.value <= result.value

(* C7 witness: a t-test call with a negative delta for which a delta of   *)
(* larger absolute value returns strictly less.                           *)
C7_Witness ==
  /\ ValidCall /\ Returned /\ fn = "t_test"
  /\ args.delta < 0
  /\ \E d \in Deltas :
       /\ Abs(args.delta) < Abs(d)
       /\ TTestWith([args EXCEPT !.delta = d]).value < result.value

====
